---- MODULE Spec2Model ----
(***************************************************************************)
(* Build-time route generation of the blog (gatsby-node.js): onCreateNode  *)
(* adds the directoryName field to every markdown node, createPages emits  *)
(* one index page per supported language and one detail page per post.     *)
(* The other programs of the repository (the index template, the RSS       *)
(* endpoint, the content schema, the service worker, the Layout and        *)
(* Translation components) have their own variables and their own          *)
(* specification each; in a specification the variables of the other       *)
(* programs stay at their initial values.                                  *)
(*                                                                         *)
(* Strings that the code builds or takes apart (paths, slugs) are          *)
(* sequences of tokens: "/zh-hans/" is <<"/", "zh-hans", "/">>.            *)
(* A node carries an id that stands for the identity of the JavaScript     *)
(* object, and its frontmatter date, the key the query sorts by; the       *)
(* title, which no code reads, is left out.                                *)
(***************************************************************************)
EXTENDS Integers, Sequences, FiniteSets, TLC

VARIABLES
  nodes,                    \* the content store: the markdown nodes sourced so far
  pc,                       \* position of the build / of createPages
  result,                   \* what the graphql query resolved to
  posts,                    \* result.data.allMarkdownRemark.edges
  allSlugs,                 \* Set of every post's slug
  translationsByDirectory,  \* directoryName -> list of langKey
  defaultLangPosts,         \* posts with langKey "en"
  otherLangPosts,           \* posts with any other langKey
  pages,                    \* the createPage calls made so far, in order
  \* the index template (blog-index.js)
  indexPage,                \* the index page rendered last: its langKey and posts
  \* the RSS endpoint (GET)
  collection,               \* the entries of the 'blog' content collection
  feed,                     \* the options handed to rss(), once GET has run
  \* the content schema (config.ts)
  frontmatter,              \* the front matter of one content file
  entry,                    \* what the schema made of it
  \* the service worker (sw.js)
  swRequest,                \* the request of the fetch event at hand
  swCaches,                 \* cache name -> does it hold a response for the URL
  swHandled,                \* how the fetch event was answered
  swMessage,                \* the message event at hand, if the last event was one
  swSkipWaiting,            \* did the handling of the last event call skipWaiting
  \* the Layout component (layout.js)
  layoutPc,                 \* unmounted, effect (an effect is pending) or idle
  location,                 \* the pathname of the page the Layout is part of
  theme,                    \* the theme state
  localStorage,             \* window.localStorage: the item "theme"
  bodyClass,                \* document.body.className
  isChecked,                \* the Toggle's isChecked state (toggle.js)
  toggleEffect,             \* the Toggle's pending effect and the checked it saw
  \* the Translation component (translation.js)
  props,                    \* its props: translations and location.pathname
  rendered,                 \* what it rendered
  referrer,                 \* the page whose translation link led to this one
  \* the precache manifest (workbox-config.cjs)
  manifestEntries,          \* the entries handed to the transform
  manifest                  \* the manifest the transform returned

buildVars == <<nodes, pc, result, posts, allSlugs, translationsByDirectory,
               defaultLangPosts, otherLangPosts, pages>>

indexVars == <<indexPage>>

feedVars == <<collection, feed>>

schemaVars == <<frontmatter, entry>>

swVars == <<swRequest, swCaches, swHandled, swMessage, swSkipWaiting>>

layoutVars == <<layoutPc, location, theme, localStorage, bodyClass,
                isChecked, toggleEffect>>

translationVars == <<props, rendered, referrer>>

manifestVars == <<manifestEntries, manifest>>

vars == <<buildVars, indexVars, feedVars, schemaVars, swVars, layoutVars,
          translationVars, manifestVars>>

----------------------------------------------------------------------------
(* Bounds of the model *)

MaxNodes == 3
MaxDate == 3

----------------------------------------------------------------------------
(* Values *)

Null == [isNull |-> TRUE]

\* a value of the front matter or of a message: a record of its JavaScript
\* type and itself
Undefined == [type |-> "undefined"]

Str(v) == [type |-> "string", value |-> v]

Bool(v) == [type |-> "boolean", value |-> v]

Arr(v) == [type |-> "array", value |-> v]

Limit == 1000

SupportedLanguageKeys == <<"en", "zh-hans">>

\* The markdown files the content directory can hold, each with the langKey
\* and the slug that gatsby-plugin-i18n puts on its node: the language of a
\* file is in its name, and the slug of a translated post starts with it.
\* a.md and a/index.md come with the same slug; a.md, b.md and b.zh-hans.md
\* lie directly under the root.
Files ==
  { [fileAbsolutePath |-> <<"blog", "a", "index.md">>,
     langKey |-> "en", slug |-> <<"/", "a", "/">>],
    [fileAbsolutePath |-> <<"blog", "a", "index.zh-hans.md">>,
     langKey |-> "zh-hans", slug |-> <<"/", "zh-hans", "/", "a", "/">>],
    [fileAbsolutePath |-> <<"blog", "a", "more.zh-hans.md">>,
     langKey |-> "zh-hans", slug |-> <<"/", "zh-hans", "/", "a", "/", "more", "/">>],
    [fileAbsolutePath |-> <<"blog", "c", "index.md">>,
     langKey |-> "en", slug |-> <<"/", "c", "/">>],
    [fileAbsolutePath |-> <<"a.md">>,
     langKey |-> "en", slug |-> <<"/", "a", "/">>],
    [fileAbsolutePath |-> <<"b.md">>,
     langKey |-> "en", slug |-> <<"/", "b", "/">>],
    [fileAbsolutePath |-> <<"b.zh-hans.md">>,
     langKey |-> "zh-hans", slug |-> <<"/", "zh-hans", "/", "b", "/">>] }

Dates == 1..MaxDate

NodeTypes == {"MarkdownRemark", "File"}

blogPost == "blog-post.js"

blogIndex == "blog-index.js"

\* path.basename(path.dirname(p)): the name of the directory holding the
\* file, "" for a file directly under the root
DirectoryNameOf(p) == IF Len(p) < 2 THEN "" ELSE p[Len(p) - 1]

----------------------------------------------------------------------------
(* The query: allMarkdownRemark(sort: {frontmatter: {date: DESC}}, limit) *)

\* the sort taken as ascending: x goes in front of the first element that is
\* not older than it
RECURSIVE InsertByDateAsc(_, _)
InsertByDateAsc(x, s) ==
  IF s = <<>> THEN <<x>>
  ELSE IF Head(s).date >= x.date THEN <<x>> \o s
       ELSE <<Head(s)>> \o InsertByDateAsc(x, Tail(s))

\* x goes in front of the first element that is not newer than it
RECURSIVE InsertByDateDesc(_, _)
InsertByDateDesc(x, s) ==
  IF s = <<>> THEN <<x>>
  ELSE IF Head(s).date <= x.date THEN <<x>> \o s
       ELSE <<Head(s)>> \o InsertByDateDesc(x, Tail(s))

\* the posts left in the order of sourcing
SortByDateDesc_Unsorted(s) == s

RECURSIVE SortByDateDesc(_)
SortByDateDesc(s) ==
  IF s = <<>> THEN <<>>
  ELSE InsertByDateDesc(Head(s), SortByDateDesc(Tail(s)))

Min(a, b) == IF a < b THEN a ELSE b

allMarkdownRemark(store) ==
  LET sorted == SortByDateDesc(store)
  IN  SubSeq(sorted, 1, Min(Len(sorted), Limit))

----------------------------------------------------------------------------
(* The reductions and filters of createPages *)

RECURSIVE AllSlugsOf(_)
AllSlugsOf(ps) ==
  IF ps = <<>> THEN {}
  ELSE {Head(ps).slug} \cup AllSlugsOf(Tail(ps))

\* result[directoryName] || (result[directoryName] = []), then push
PushLang(acc, directoryName, langKey) ==
  IF directoryName \in DOMAIN acc
  THEN [acc EXCEPT ![directoryName] = Append(@, langKey)]
  ELSE [d \in DOMAIN acc \cup {directoryName} |->
          IF d = directoryName THEN <<langKey>> ELSE acc[d]]

RECURSIVE TranslationsReduce(_, _)
TranslationsReduce(acc, ps) ==
  IF ps = <<>> THEN acc
  ELSE LET post == Head(ps)
       IN  IF post.directoryName # "" /\ post.langKey # "" /\ post.langKey # "en"
           THEN TranslationsReduce(PushLang(acc, post.directoryName, post.langKey), Tail(ps))
           ELSE TranslationsReduce(acc, Tail(ps))

EmptyObject == [d \in {} |-> <<>>]

\* the default-language posts collected back to front
RECURSIVE FilterDefaultLang_Reversed(_)
FilterDefaultLang_Reversed(ps) ==
  IF ps = <<>> THEN <<>>
  ELSE IF Head(ps).langKey = "en"
       THEN FilterDefaultLang_Reversed(Tail(ps)) \o <<Head(ps)>>
       ELSE FilterDefaultLang_Reversed(Tail(ps))

RECURSIVE FilterDefaultLang(_)
FilterDefaultLang(ps) ==
  IF ps = <<>> THEN <<>>
  ELSE IF Head(ps).langKey = "en" THEN <<Head(ps)>> \o FilterDefaultLang(Tail(ps))
       ELSE FilterDefaultLang(Tail(ps))

RECURSIVE FilterOtherLang(_)
FilterOtherLang(ps) ==
  IF ps = <<>> THEN <<>>
  ELSE IF Head(ps).langKey # "en" THEN <<Head(ps)>> \o FilterOtherLang(Tail(ps))
       ELSE FilterOtherLang(Tail(ps))

\* the end of the list taken one place too early
PreviousOf_OffByOne(dlp, index) ==
  IF index + 1 >= Len(dlp) THEN Null ELSE dlp[index + 1]

\* previous taken at the post's own index
PreviousOf_Self(dlp, index) ==
  IF index = Len(dlp) THEN Null ELSE dlp[index]

\* index runs from 1: the code's index === length - 1 is index = Len here
PreviousOf(dlp, index) ==
  IF index = Len(dlp) THEN Null ELSE dlp[index + 1]

\* next taken from the same side as previous
NextOf_SameSide(dlp, index) ==
  IF index = Len(dlp) THEN Null ELSE dlp[index + 1]

\* next taken two places up
NextOf_SkipsOne(dlp, index) ==
  IF index = 1 THEN Null ELSE dlp[IF index = 2 THEN 1 ELSE index - 2]

NextOf(dlp, index) ==
  IF index = 1 THEN Null ELSE dlp[index - 1]

\* the lookup without its || []
TranslationsOf_NoFallback(tbd, directoryName) ==
  IF directoryName \in DOMAIN tbd THEN tbd[directoryName] ELSE Null

\* translationsByDirectory[directoryName] || []
TranslationsOf(tbd, directoryName) ==
  IF directoryName \in DOMAIN tbd THEN tbd[directoryName] ELSE <<>>

\* the default language prefixed like the others
IndexPath_AlwaysPrefixed(langKey) == <<"/", langKey, "/">>

IndexPath(langKey) ==
  IF langKey = "en" THEN <<"/">> ELSE <<"/", langKey, "/">>

IndexPage(langKey) ==
  [path |-> IndexPath(langKey),
   component |-> blogIndex,
   context |-> [langKey |-> langKey]]

\* the translations looked up under the slug instead of the directory name
DefaultLangPage_LookupBySlug(dlp, tbd, index) ==
  LET post == dlp[index]
  IN  [path |-> post.slug,
       component |-> blogPost,
       context |-> [slug |-> post.slug,
                    langKey |-> post.langKey,
                    translations |-> IF post.slug \in DOMAIN tbd THEN tbd[post.slug] ELSE <<>>,
                    previous |-> IF index = Len(dlp) THEN Null ELSE dlp[index + 1],
                    next |-> IF index = 1 THEN Null ELSE dlp[index - 1]]]

DefaultLangPage(dlp, tbd, index) ==
  LET post == dlp[index]
  IN  [path |-> post.slug,
       component |-> blogPost,
       context |-> [slug |-> post.slug,
                    langKey |-> post.langKey,
                    translations |-> TranslationsOf(tbd, post.directoryName),
                    previous |-> PreviousOf(dlp, index),
                    next |-> NextOf(dlp, index)]]

\* the context of a default-language page given to a translated one
OtherLangPage_WithTranslations(post) ==
  [path |-> post.slug,
   component |-> blogPost,
   context |-> [langKey |-> post.langKey,
                slug |-> post.slug,
                translations |-> <<>>]]

OtherLangPage(post) ==
  [path |-> post.slug,
   component |-> blogPost,
   context |-> [langKey |-> post.langKey,
                slug |-> post.slug]]

----------------------------------------------------------------------------
(* The build *)

\* a program that a specification does not run: its variables stay as here
None == [isNone |-> TRUE]

BuildIdle ==
  /\ nodes = <<>>
  /\ pc = "sourcing"
  /\ result = [errors |-> FALSE, data |-> <<>>]
  /\ posts = <<>>
  /\ allSlugs = {}
  /\ translationsByDirectory = EmptyObject
  /\ defaultLangPosts = <<>>
  /\ otherLangPosts = <<>>
  /\ pages = <<>>

IndexIdle == indexPage = None

FeedIdle == collection = <<>> /\ feed = None

SchemaIdle == frontmatter = None /\ entry = None

SwIdle ==
  /\ swRequest = None
  /\ swCaches = None
  /\ swHandled = None
  /\ swMessage = None
  /\ swSkipWaiting = None

LayoutIdle ==
  /\ layoutPc = "unmounted"
  /\ location = None
  /\ theme = None
  /\ localStorage = None
  /\ bodyClass = None
  /\ isChecked = None
  /\ toggleEffect = None

TranslationIdle == props = None /\ rendered = None /\ referrer = None

ManifestIdle == manifestEntries = <<>> /\ manifest = None

Init ==
  /\ BuildIdle
  /\ ManifestIdle
  /\ IndexIdle
  /\ FeedIdle
  /\ SchemaIdle
  /\ SwIdle
  /\ LayoutIdle
  /\ TranslationIdle

\* A file of the content directory becomes a node.  A markdown node gets the
\* directoryName field and joins allMarkdownRemark; a node of any other type
\* is left as it is and is no post.  date is the node's frontmatter.
onCreateNode ==
  /\ pc = "sourcing"
  /\ Len(nodes) < MaxNodes
  /\ \E type \in NodeTypes, file \in Files, date \in Dates :
       /\ \A i \in DOMAIN nodes : nodes[i].fileAbsolutePath # file.fileAbsolutePath
       /\ IF type = "MarkdownRemark"
          THEN nodes' = Append(nodes,
                          [id |-> Len(nodes) + 1,
                           fileAbsolutePath |-> file.fileAbsolutePath,
                           slug |-> file.slug,
                           langKey |-> file.langKey,
                           date |-> date,
                           directoryName |-> DirectoryNameOf(file.fileAbsolutePath)])
          ELSE UNCHANGED nodes
  /\ UNCHANGED <<pc, result, posts, allSlugs, translationsByDirectory,
                 defaultLangPosts, otherLangPosts, pages>>

\* createPages up to its await: one index page per supported language,
\* then the query is sent
CreateIndexPages ==
  /\ pc = "sourcing"
  /\ pages' = pages \o [i \in 1..Len(SupportedLanguageKeys) |->
                          IndexPage(SupportedLanguageKeys[i])]
  /\ pc' = "query"
  /\ UNCHANGED <<nodes, result, posts, allSlugs, translationsByDirectory,
                 defaultLangPosts, otherLangPosts>>

\* the query resolves with errors: if (result.errors) throw result.errors
ThrowErrors ==
  /\ pc = "query"
  /\ result' = [errors |-> TRUE, data |-> <<>>]
  /\ pc' = "thrown"
  /\ UNCHANGED <<nodes, posts, allSlugs, translationsByDirectory,
                 defaultLangPosts, otherLangPosts, pages>>

\* the query resolves with data: the rest of createPages runs to its end
CreateBlogPostPages ==
  /\ pc = "query"
  /\ LET data == allMarkdownRemark(nodes)
         tbd == TranslationsReduce(EmptyObject, data)
         dlp == FilterDefaultLang(data)
         olp == FilterOtherLang(data)
     IN  /\ result' = [errors |-> FALSE, data |-> data]
         /\ posts' = data
         /\ allSlugs' = AllSlugsOf(data)
         /\ translationsByDirectory' = tbd
         /\ defaultLangPosts' = dlp
         /\ otherLangPosts' = olp
         /\ pages' = pages
                      \o [i \in 1..Len(dlp) |-> DefaultLangPage(dlp, tbd, i)]
                      \o [i \in 1..Len(olp) |-> OtherLangPage(olp[i])]
  /\ pc' = "done"
  /\ UNCHANGED nodes

notBuildVars == <<indexVars, feedVars, schemaVars, swVars, layoutVars,
                  translationVars,
                  manifestVars>>

Next ==
  \/ onCreateNode /\ UNCHANGED notBuildVars
  \/ CreateIndexPages /\ UNCHANGED notBuildVars
  \/ ThrowErrors /\ UNCHANGED notBuildVars
  \/ CreateBlogPostPages /\ UNCHANGED notBuildVars

Spec == Init /\ [][Next]_vars

----------------------------------------------------------------------------
(* What the claims speak of *)

IsIndexRoute(r) == r.component = blogIndex

IsDefaultLangRoute(r) == r.component = blogPost /\ r.context.langKey = "en"

IsOtherLangRoute(r) == r.component = blogPost /\ r.context.langKey # "en"

\* the routes emitted so far, by kind, each in emission order
IndexRoutes == SelectSeq(pages, IsIndexRoute)

DefaultLangRoutes == SelectSeq(pages, IsDefaultLangRoute)

OtherLangRoutes == SelectSeq(pages, IsOtherLangRoute)

\* the posts of the content store, by language
DefaultLangNodes == {nodes[i] : i \in {j \in DOMAIN nodes : nodes[j].langKey = "en"}}

OtherLangNodes == {nodes[i] : i \in {j \in DOMAIN nodes : nodes[j].langKey # "en"}}

Range(s) == {s[i] : i \in DOMAIN s}

\* createPages has returned
Done == pc = "done"

----------------------------------------------------------------------------
\* C1: once createPages has passed its first loop, whatever the posts are and
\* however the run ends, there is exactly one index route per key of
\* supportedLanguages, with path "/" for "en" and "/<lang>/" for any other
\* key, and with context {langKey: <lang>}.
C1_OneIndexRoutePerLocale ==
  pc # "sourcing" =>
    LET R == IndexRoutes
    IN  /\ Len(R) = Len(SupportedLanguageKeys)
        /\ \A lang \in Range(SupportedLanguageKeys) :
             \E i \in DOMAIN R :
               /\ R[i].context = [langKey |-> lang]
               /\ R[i].path = IF lang = "en" THEN <<"/">> ELSE <<"/", lang, "/">>
               /\ \A j \in DOMAIN R : R[j].context.langKey = lang => j = i

C1_Witness ==
  /\ Done
  /\ nodes = <<>>
  /\ Len(pages) = 2
  /\ pages[1].path = <<"/">>
  /\ pages[2].path = <<"/", "zh-hans", "/">>

PostOfRoute(k) == defaultLangPosts[k]

RouteIndexOf(P) ==
  IF \E k \in DOMAIN defaultLangPosts : defaultLangPosts[k] = P
  THEN CHOOSE k \in DOMAIN defaultLangPosts : defaultLangPosts[k] = P
  ELSE 0

\* C4: navigation symmetry over the default-language routes: when the route
\* of P has next = Q, Q is a default-language post whose route has
\* previous = P; when the route of P has previous = R, R is a
\* default-language post whose route has next = P.
C4_NavigationSymmetry ==
  Done =>
    LET R == DefaultLangRoutes
    IN  \A k \in DOMAIN R :
          /\ R[k].context.next # Null =>
               LET q == RouteIndexOf(R[k].context.next)
               IN  q # 0 /\ R[q].context.previous = PostOfRoute(k)
          /\ R[k].context.previous # Null =>
               LET r == RouteIndexOf(R[k].context.previous)
               IN  r # 0 /\ R[r].context.next = PostOfRoute(k)

\* three default-language posts: the middle one has both links
C4_Witness ==
  /\ Done
  /\ Len(DefaultLangRoutes) = 3
  /\ DefaultLangRoutes[2].context.next = defaultLangPosts[1]
  /\ DefaultLangRoutes[2].context.previous = defaultLangPosts[3]
  /\ DefaultLangRoutes[1].context.previous = defaultLangPosts[2]
  /\ DefaultLangRoutes[3].context.next = defaultLangPosts[2]

\* C5: navigation boundary: the first post of the date-descending order is a
\* newest one (no default-language post has a later date) and has
\* next = null, the last is an oldest one and has previous = null, every
\* post between them has both links, and a single default-language post has
\* both null.
C5_NavigationBoundary ==
  Done =>
    LET R == DefaultLangRoutes
        n == Len(DefaultLangRoutes)
    IN  /\ n = Cardinality(DefaultLangNodes)
        /\ n >= 1 =>
             /\ \A P \in DefaultLangNodes :
                  PostOfRoute(n).date <= P.date /\ P.date <= PostOfRoute(1).date
             /\ R[1].context.next = Null
             /\ R[n].context.previous = Null
             /\ \A k \in 2..(n - 1) :
                  R[k].context.previous # Null /\ R[k].context.next # Null
        /\ n = 1 => R[1].context.previous = Null /\ R[1].context.next = Null

\* three default-language posts of three different dates
C5_Witness ==
  /\ Done
  /\ Len(DefaultLangRoutes) = 3
  /\ defaultLangPosts[1].date > defaultLangPosts[2].date
  /\ defaultLangPosts[2].date > defaultLangPosts[3].date
  /\ DefaultLangRoutes[1].context.next = Null
  /\ DefaultLangRoutes[3].context.previous = Null
  /\ DefaultLangRoutes[2].context.previous # Null
  /\ DefaultLangRoutes[2].context.next # Null

\* C6: for every default-language post P, previous (when not null) is a
\* default-language post that is not newer than P, next (when not null) one
\* that is not older, and no other default-language post has a date strictly
\* between P's and a neighbour's; P has a previous unless no other post comes
\* after it in the order, and a next unless none comes before it.
C6_NeighboursAreImmediate ==
  Done =>
    LET R == DefaultLangRoutes
        N == DefaultLangNodes
    IN  \A k \in DOMAIN R :
          LET P == PostOfRoute(k)
              prev == R[k].context.previous
              next == R[k].context.next
          IN  /\ prev # Null =>
                   /\ prev \in N \ {P}
                   /\ prev.date <= P.date
                   /\ \A X \in N : ~(prev.date < X.date /\ X.date < P.date)
              /\ next # Null =>
                   /\ next \in N \ {P}
                   /\ P.date <= next.date
                   /\ \A X \in N : ~(P.date < X.date /\ X.date < next.date)
              /\ prev = Null => \A X \in N : X.date >= P.date
              /\ next = Null => \A X \in N : X.date <= P.date

\* the posts were sourced oldest first, and a translated post lies between
\* two default-language ones in time
C6_Witness ==
  /\ Done
  /\ Len(DefaultLangRoutes) = 2
  /\ Len(nodes) = 3
  /\ nodes[1].date < nodes[2].date
  /\ nodes[2].date < nodes[3].date
  /\ nodes[2].langKey # "en"
  /\ DefaultLangRoutes[1].context.previous = nodes[1]
  /\ DefaultLangRoutes[2].context.next = nodes[3]

\* the posts that share the directory of P, P aside
GroupMates(P) ==
  {X \in Range(posts) : X.directoryName = P.directoryName /\ X # P}

NoDuplicates(t) == \A i, j \in DOMAIN t : i # j => t[i] # t[j]

\* C7: translation completeness: for every default-language post P that has
\* a directory name and shares it with other posts, the translations of P's
\* route contain exactly the langKeys of the other-language posts of that
\* directory, never "en", and no langKey twice.
C7_TranslationCompleteness ==
  Done =>
    LET R == DefaultLangRoutes
    IN  \A k \in DOMAIN R :
          LET P == PostOfRoute(k)
              t == R[k].context.translations
          IN  (P.directoryName # "" /\ GroupMates(P) # {}) =>
                /\ Range(t) = {X.langKey : X \in {Y \in GroupMates(P) : Y.langKey # "en"}}
                /\ "en" \notin Range(t)
                /\ NoDuplicates(t)

C9_RouteUniqueness ==
  \A i, j \in DOMAIN pages : i # j => pages[i].path # pages[j].path

\* the store holds two default-language posts of the same slug
DuplicateDefaultLangSlugs ==
  \E P, Q \in DefaultLangNodes : P # Q /\ P.slug = Q.slug

\* C10: fail-fast on duplicates: when the store holds two default-language
\* posts of the same slug and the query has returned them, createPages ends
\* by throwing and no route has been emitted.
C10_FailFastOnDuplicateSlugs ==
  (DuplicateDefaultLangSlugs /\ pc \in {"done", "thrown"} /\ ~result.errors) =>
    (pc = "thrown" /\ pages = <<>>)

----------------------------------------------------------------------------
\* C11: all-or-nothing build: a run of createPages that aborts because the
\* content query returned errors has emitted no route at all.
C11_AbortEmitsNoRoute ==
  pc = "thrown" => pages = <<>>

\* the place of the post of identity id in the query's result
PlaceInPosts(id) ==
  CHOOSE i \in DOMAIN posts : posts[i].id = id

----------------------------------------------------------------------------
(* The RSS endpoint: GET of the rss.xml page.  The 'blog' collection holds  *)
(* the entries the content schema accepted; an entry's slug is its name in  *)
(* the collection.                                                          *)

MaxEntries == 3

Langs == {"en", "zh-hans"}

\* the k-th entry of the collection: slug, title and description are its own
Entry(k, date, draft, lang) ==
  [ slug |-> <<"post", k>>,
    data |-> [ title       |-> <<"title", k>>,
               description |-> IF k % 2 = 0 THEN Null ELSE <<"about", k>>,
               date        |-> date,
               draft       |-> draft,
               lang        |-> lang ] ]

\* the filter that lets every default-language entry through, drafts too
GetCollectionFilter_KeepsDrafts(e) == e.data.lang = "en"

\* ({ data }) => !data.draft && data.lang === 'en'
GetCollectionFilter(e) == ~e.data.draft /\ e.data.lang = "en"

\* getCollection('blog', filter): the entries the filter accepts
RECURSIVE getCollection(_)
getCollection(c) ==
  IF c = <<>> THEN <<>>
  ELSE IF GetCollectionFilter(Head(c)) THEN <<Head(c)>> \o getCollection(Tail(c))
       ELSE getCollection(Tail(c))

\* the comparator's sign turned: a minus b
RECURSIVE InsertByTimeAsc(_, _)
InsertByTimeAsc(x, t) ==
  IF t = <<>> THEN <<x>>
  ELSE IF Head(t).data.date >= x.data.date THEN <<x>> \o t
       ELSE <<Head(t)>> \o InsertByTimeAsc(x, Tail(t))

\* x goes in front of the first entry whose time is not after its own
RECURSIVE InsertByTimeDesc(_, _)
InsertByTimeDesc(x, t) ==
  IF t = <<>> THEN <<x>>
  ELSE IF Head(t).data.date <= x.data.date THEN <<x>> \o t
       ELSE <<Head(t)>> \o InsertByTimeDesc(x, Tail(t))

\* blog.sort((a, b) => time of b - time of a): Array.prototype.sort is stable
RECURSIVE SortedPosts(_)
SortedPosts(blog) ==
  IF blog = <<>> THEN <<>>
  ELSE InsertByTimeDesc(Head(blog), SortedPosts(Tail(blog)))

\* the item of one post
Item(post) ==
  [ title       |-> post.data.title,
    pubDate     |-> post.data.date,
    description |-> post.data.description,
    link        |-> <<"/">> \o post.slug \o <<"/">> ]

Items(sortedPosts) == [k \in DOMAIN sortedPosts |-> Item(sortedPosts[k])]

notFeedVars == <<buildVars, indexVars, schemaVars, swVars, layoutVars,
                 translationVars,
                 manifestVars>>

InitFeed ==
  /\ BuildIdle
  /\ ManifestIdle
  /\ IndexIdle
  /\ FeedIdle
  /\ SchemaIdle
  /\ SwIdle
  /\ LayoutIdle
  /\ TranslationIdle

\* a content file enters the collection
AddEntry ==
  /\ feed = None
  /\ Len(collection) < MaxEntries
  /\ \E date \in Dates, draft \in BOOLEAN, lang \in Langs :
       collection' = Append(collection,
                            Entry(Len(collection) + 1, date, draft, lang))
  /\ UNCHANGED feed

GET ==
  /\ feed = None
  /\ LET blog        == getCollection(collection)
         sortedPosts == SortedPosts(blog)
     IN  feed' = [items |-> Items(sortedPosts)]
  /\ UNCHANGED collection

NextFeed ==
  \/ AddEntry /\ UNCHANGED notFeedVars
  \/ GET /\ UNCHANGED notFeedVars

SpecFeed == InitFeed /\ [][NextFeed]_vars

\* the items of the feed that link to entry e
ItemsOf(e) == {k \in DOMAIN feed.items : feed.items[k].link = <<"/">> \o e.slug \o <<"/">>}

C14_FeedNewestFirst ==
  feed # None =>
    \A k, l \in DOMAIN feed.items :
      k < l => feed.items[k].pubDate >= feed.items[l].pubDate

\* three published default-language posts that entered oldest first
C14_Witness ==
  /\ feed # None
  /\ Len(feed.items) = 3
  /\ collection[1].data.date < collection[2].data.date
  /\ collection[2].data.date < collection[3].data.date
  /\ feed.items[1].link = <<"/", "post", 3, "/">>

----------------------------------------------------------------------------
(* The service worker (sw.js): the precache route and the four runtime      *)
(* routes, consulted by the router in the order of their registration.     *)
(* A behaviour follows the requests for one URL: the entries of different  *)
(* URLs do not meet.                                                       *)

self == "https://saul-mirone.github.io"

Origins ==
  {self, "https://fonts.googleapis.com", "https://fonts.gstatic.com",
   "https://cdn.example"}

Pathnames ==
  { <<"/", "a", "/">>, <<"/", "api", "/", "posts">>, <<"/", "api">>,
    <<"/", "apiary", "/", "x">> }

Destinations == {"image", "font", "style", "script", "document", ""}

Modes == {"navigate", "cors", "no-cors"}

\* what the network does with the request: a status, or no response at all
Outcomes == {"200", "0", "404", "failed"}

\* the GET requests a browser hands to the worker: it navigates to documents
\* of the worker's own origin only, and only URLs of that origin are in the
\* precache manifest
Requests ==
  { r \in [ origin : Origins, pathname : Pathnames, destination : Destinations,
            mode : Modes, precached : BOOLEAN ] :
      /\ (r.mode = "navigate") <=> (r.destination = "document")
      /\ r.mode = "navigate" => r.origin = self
      /\ r.precached => r.origin = self }

Url(r) == [origin |-> r.origin, pathname |-> r.pathname, precached |-> r.precached]

StartsWith(t, prefix) ==
  Len(t) >= Len(prefix) /\ SubSeq(t, 1, Len(prefix)) = prefix

\* the matchers of the four registerRoute calls, by cache name
Matcher(cacheName, request) ==
  CASE cacheName = "static-assets" ->
         \/ request.destination = "image"
         \/ request.destination = "font"
         \/ request.destination = "style"
         \/ request.destination = "script"
    [] cacheName = "pages" -> request.mode = "navigate"
    [] cacheName = "api-cache" -> StartsWith(request.pathname, <<"/", "api", "/">>)
    [] cacheName = "google-fonts" ->
         \/ request.origin = "https://fonts.googleapis.com"
         \/ request.origin = "https://fonts.gstatic.com"

\* the api rule registered ahead of the static-assets rule
Routes_ApiFirst ==
  << [cacheName |-> "api-cache", strategy |-> "NetworkFirst",
      maxEntries |-> 20, maxAgeSeconds |-> 5 * 60],
     [cacheName |-> "static-assets", strategy |-> "CacheFirst",
      maxEntries |-> 100, maxAgeSeconds |-> 30 * 24 * 60 * 60],
     [cacheName |-> "pages", strategy |-> "StaleWhileRevalidate",
      maxEntries |-> 50, maxAgeSeconds |-> 7 * 24 * 60 * 60],
     [cacheName |-> "google-fonts", strategy |-> "StaleWhileRevalidate",
      maxEntries |-> 30, maxAgeSeconds |-> 365 * 24 * 60 * 60] >>

\* the runtime routes in the order of their registerRoute calls
Routes ==
  << [cacheName |-> "static-assets", strategy |-> "CacheFirst",
      maxEntries |-> 100, maxAgeSeconds |-> 30 * 24 * 60 * 60],
     [cacheName |-> "pages", strategy |-> "StaleWhileRevalidate",
      maxEntries |-> 50, maxAgeSeconds |-> 7 * 24 * 60 * 60],
     [cacheName |-> "api-cache", strategy |-> "NetworkFirst",
      maxEntries |-> 20, maxAgeSeconds |-> 5 * 60],
     [cacheName |-> "google-fonts", strategy |-> "StaleWhileRevalidate",
      maxEntries |-> 30, maxAgeSeconds |-> 365 * 24 * 60 * 60] >>

CacheNames == {Routes[k].cacheName : k \in DOMAIN Routes}

\* the router: the precache route was registered first, then the four
\* routes; the first route that matches answers.  0 is the precache route,
\* 5 no route at all.
NoRoute == Len(Routes) + 1

FindMatchingRoute(request) ==
  IF request.precached THEN 0
  ELSE IF \E k \in DOMAIN Routes : Matcher(Routes[k].cacheName, request)
       THEN CHOOSE k \in DOMAIN Routes :
              /\ Matcher(Routes[k].cacheName, request)
              /\ \A j \in 1..(k - 1) : ~Matcher(Routes[j].cacheName, request)
       ELSE NoRoute

\* CacheableResponsePlugin({statuses: [0, 200]})
Cacheable(outcome) == outcome \in {"0", "200"}


\* what a strategy answers with and which caches it writes, given whether
\* its cache holds the URL (hit) and what the network does
CacheFirst(cacheName, hit, outcome) ==
  IF hit THEN [respondedFrom |-> "cache", puts |-> {}]
  ELSE IF outcome = "failed" THEN [respondedFrom |-> "error", puts |-> {}]
  ELSE [respondedFrom |-> "network",
        puts |-> IF Cacheable(outcome) THEN {cacheName} ELSE {}]

StaleWhileRevalidate(cacheName, hit, outcome) ==
  [ respondedFrom |-> IF hit THEN "cache"
                      ELSE IF outcome = "failed" THEN "error" ELSE "network",
    puts |-> IF Cacheable(outcome) THEN {cacheName} ELSE {} ]

NetworkFirst(cacheName, hit, outcome) ==
  IF outcome = "failed"
  THEN [respondedFrom |-> IF hit THEN "cache" ELSE "error", puts |-> {}]
  ELSE [respondedFrom |-> "network",
        puts |-> IF Cacheable(outcome) THEN {cacheName} ELSE {}]

Strategy(name, cacheName, hit, outcome) ==
  CASE name = "CacheFirst" -> CacheFirst(cacheName, hit, outcome)
    [] name = "StaleWhileRevalidate" -> StaleWhileRevalidate(cacheName, hit, outcome)
    [] name = "NetworkFirst" -> NetworkFirst(cacheName, hit, outcome)

\* the answer to one fetch event
Handle(request, outcome, caches) ==
  LET k == FindMatchingRoute(request)
  IN  IF k = 0
      THEN [route |-> k, cacheName |-> "", strategy |-> "precache",
            respondedFrom |-> "precache", puts |-> {}]
      ELSE IF k = NoRoute
      THEN [route |-> k, cacheName |-> "", strategy |-> "",
            respondedFrom |-> IF outcome = "failed" THEN "error" ELSE "network",
            puts |-> {}]
      ELSE LET route == Routes[k]
               hit   == Url(request) \in caches[route.cacheName]
               done  == Strategy(route.strategy, route.cacheName, hit, outcome)
           IN  [route |-> k, cacheName |-> route.cacheName,
                strategy |-> route.strategy,
                respondedFrom |-> done.respondedFrom, puts |-> done.puts]

notSwVars == <<buildVars, indexVars, feedVars, schemaVars, layoutVars,
               translationVars,
               manifestVars>>

\* an object with the given properties
Obj(v) == [type |-> "object", value |-> v]

\* what a client can post: nothing, null, strings, objects with and without
\* a type
MessageData ==
  { Undefined, Null, Str(""), Str("SKIP_WAITING"),
    Obj([type |-> Str("SKIP_WAITING")]),
    Obj([type |-> Str("SKIP_WAITING"), payload |-> Str("now")]),
    Obj([type |-> Str("CLIENTS_CLAIM")]),
    Obj([payload |-> Str("SKIP_WAITING")]) }

\* no message event is at hand
NoMessage == [data |-> None]

\* JavaScript's truthiness, for the values above
Truthy(v) == v \notin {Undefined, Null, Str("")}

\* v.type of a truthy value: a property of the object, undefined on a string
TypeOf(v) ==
  IF v.type = "object" /\ "type" \in DOMAIN v.value THEN v.value["type"]
  ELSE Undefined

\* the message listener: does it call self.skipWaiting()
MessageListener_AnyData(event) == Truthy(event.data)

MessageListener(event) ==
  IF Truthy(event.data) THEN TypeOf(event.data) = Str("SKIP_WAITING")
  ELSE FALSE

InitSW ==
  /\ BuildIdle
  /\ ManifestIdle
  /\ IndexIdle
  /\ FeedIdle
  /\ SchemaIdle
  /\ LayoutIdle
  /\ TranslationIdle
  /\ swRequest = None
  /\ swCaches = [c \in CacheNames |-> {}]
  /\ swHandled = None
  /\ swMessage = NoMessage
  /\ swSkipWaiting = FALSE

FetchEvent ==
  \E request \in Requests, outcome \in Outcomes :
    /\ IF swRequest = None THEN TRUE ELSE Url(request) = Url(swRequest)
    /\ LET handled == Handle(request, outcome, swCaches)
       IN  /\ swHandled' = handled
           /\ swCaches' = [c \in CacheNames |->
                             IF c \in handled.puts
                             THEN swCaches[c] \cup {Url(request)}
                             ELSE swCaches[c]]
    /\ swRequest' = request
    /\ swMessage' = NoMessage
    /\ swSkipWaiting' = FALSE

\* ExpirationPlugin: an entry past maxAgeSeconds or beyond maxEntries goes
Expire ==
  /\ \E c \in CacheNames :
       /\ swCaches[c] # {}
       /\ swCaches' = [swCaches EXCEPT ![c] = {}]
  /\ UNCHANGED <<swRequest, swHandled, swMessage, swSkipWaiting>>

\* a message is posted to the worker: the listener runs
MessageEvent ==
  /\ \E data \in MessageData :
       LET event == [data |-> data]
       IN  /\ swMessage' = event
           /\ swSkipWaiting' = MessageListener(event)
  /\ UNCHANGED <<swRequest, swCaches, swHandled>>

NextSW ==
  \/ FetchEvent /\ UNCHANGED notSwVars
  \/ Expire /\ UNCHANGED notSwVars
  \/ MessageEvent /\ UNCHANGED notSwVars

SpecSW == InitSW /\ [][NextSW]_vars

\* the rule the claim assigns to a request: cache name and strategy
RuleOfClaim(r) ==
  IF r.destination \in {"image", "font", "style", "script"}
  THEN <<"static-assets", "CacheFirst">>
  ELSE IF r.mode = "navigate"
  THEN <<"pages", "StaleWhileRevalidate">>
  ELSE IF StartsWith(r.pathname, <<"/", "api", "/">>)
  THEN <<"api-cache", "NetworkFirst">>
  ELSE IF r.origin \in {"https://fonts.googleapis.com", "https://fonts.gstatic.com"}
  THEN <<"google-fonts", "StaleWhileRevalidate">>
  ELSE <<"", "">>

HandledAsClaimed ==
  /\ <<swHandled.cacheName, swHandled.strategy>> = RuleOfClaim(swRequest)
  /\ swHandled.puts \subseteq {swHandled.cacheName}
  /\ RuleOfClaim(swRequest) = <<"", "">> =>
       swHandled.respondedFrom \in {"network", "error"} /\ swHandled.puts = {}

----------------------------------------------------------------------------
(* The content schema (config.ts): the front matter of a file is parsed by *)
(* the zod object; a value is a record of its JavaScript type and itself.  *)

\* the front matters a file can carry
FrontMatters ==
  [ title       : {Undefined, Str("t")},
    description : {Undefined, Str("d")},
    date        : {Undefined, Str("2020-04-24T06:18:19.632Z"), Str("soon")},
    draft       : {Undefined, Bool(TRUE), Bool(FALSE), Str("true")},
    tags        : {Undefined, Arr(<<>>), Arr(<<Str("react")>>), Str("react")},
    lang        : {Undefined, Str("en"), Str("zh-hans"), Str("fr"), Str("EN")} ]

Ok(v) == [ok |-> TRUE, value |-> v]

Issue == [ok |-> FALSE]

\* z.string()
ZString(x) == IF x.type = "string" THEN Ok(x.value) ELSE Issue

\* z.string().optional()
ZStringOptional(x) == IF x.type = "undefined" THEN Ok(Null) ELSE ZString(x)

\* z.coerce.date(): new Date(x), an Invalid Date is an issue
ZCoerceDate(x) ==
  IF x.type = "string" /\ x.value = "2020-04-24T06:18:19.632Z"
  THEN Ok([time |-> x.value])
  ELSE Issue

\* z.boolean().optional().default(false)
ZDraft(x) ==
  IF x.type = "undefined" THEN Ok(FALSE)
  ELSE IF x.type = "boolean" THEN Ok(x.value) ELSE Issue

\* z.array(z.string()).optional().default([])
ZTags(x) ==
  IF x.type = "undefined" THEN Ok(<<>>)
  ELSE IF x.type = "array" /\ \A k \in DOMAIN x.value : x.value[k].type = "string"
  THEN Ok([k \in DOMAIN x.value |-> x.value[k].value])
  ELSE Issue

\* the enum letting every string through
ZLang_AnyString(x) ==
  IF x.type = "undefined" THEN Ok("en") ELSE ZString(x)

\* z.enum(['en', 'zh-hans']).optional().default('en')
ZLang(x) ==
  IF x.type = "undefined" THEN Ok("en")
  ELSE IF x.type = "string" /\ x.value \in {"en", "zh-hans"} THEN Ok(x.value)
  ELSE Issue

\* z.object({...}): the data when every field parses, the failing fields else
Schema(fm) ==
  LET parsed == [ title       |-> ZString(fm.title),
                  description |-> ZStringOptional(fm.description),
                  date        |-> ZCoerceDate(fm.date),
                  draft       |-> ZDraft(fm.draft),
                  tags        |-> ZTags(fm.tags),
                  lang        |-> ZLang(fm.lang) ]
      issues == {f \in DOMAIN parsed : ~parsed[f].ok}
  IN  IF issues = {}
      THEN [success |-> TRUE, data |-> [f \in DOMAIN parsed |-> parsed[f].value]]
      ELSE [success |-> FALSE, issues |-> issues]

notSchemaVars == <<buildVars, indexVars, feedVars, swVars, layoutVars,
                   translationVars,
                   manifestVars>>

InitSchema ==
  /\ BuildIdle
  /\ ManifestIdle
  /\ IndexIdle
  /\ FeedIdle
  /\ SchemaIdle
  /\ SwIdle
  /\ LayoutIdle
  /\ TranslationIdle

\* the content layer reads the front matter of a file of the collection
ReadFrontMatter ==
  /\ frontmatter = None
  /\ frontmatter' \in FrontMatters
  /\ UNCHANGED entry

\* and hands it to the schema: an entry of the collection, or a failed build
ParseFrontMatter ==
  /\ frontmatter # None
  /\ entry = None
  /\ entry' = Schema(frontmatter)
  /\ UNCHANGED frontmatter

NextSchema ==
  \/ ReadFrontMatter /\ UNCHANGED notSchemaVars
  \/ ParseFrontMatter /\ UNCHANGED notSchemaVars

SpecSchema == InitSchema /\ [][NextSchema]_vars

\* C16: a front matter whose lang is present and outside {"en", "zh-hans"}
\* is rejected: no entry, the lang field among the issues.  An accepted
\* front matter without lang gets lang = "en", without draft draft = false,
\* without tags tags = [].
C16_SchemaBoundary ==
  entry # None =>
    /\ (frontmatter.lang # Undefined /\ frontmatter.lang \notin {Str("en"), Str("zh-hans")})
         => (~entry.success /\ "lang" \in entry.issues)
    /\ entry.success =>
         /\ entry.data.lang \in {"en", "zh-hans"}
         /\ frontmatter.lang = Undefined => entry.data.lang = "en"
         /\ frontmatter.draft = Undefined => entry.data.draft = FALSE
         /\ frontmatter.tags = Undefined => entry.data.tags = <<>>

\* a front matter with title and date alone is accepted with the three
\* defaults
C16_Witness ==
  /\ entry # None
  /\ entry.success
  /\ frontmatter.lang = Undefined
  /\ frontmatter.draft = Undefined
  /\ frontmatter.tags = Undefined
  /\ entry.data.lang = "en" /\ entry.data.draft = FALSE /\ entry.data.tags = <<>>

\* a front matter that is in order but for lang: "fr" is rejected
C16_WitnessRejected ==
  /\ entry # None
  /\ frontmatter.lang = Str("fr")
  /\ ~entry.success
  /\ entry.issues = {"lang"}

----------------------------------------------------------------------------
(* The Layout component (layout.js): the theme state, its effect and the   *)
(* toggle's onChange, in one browser whose localStorage outlives the       *)
(* instances.  After an instance has gone, theme keeps the value that      *)
(* instance settled on.                                                    *)

themeKey == "theme"

\* no instance has settled yet
NoTheme == ""

\* no page is shown
NoLocation == <<>>

\* the pages of the site: every page renders a Layout of its own
SitePaths ==
  {IndexPath(SupportedLanguageKeys[k]) : k \in DOMAIN SupportedLanguageKeys}
    \cup {f.slug : f \in Files}

\* localStorage without items
NoItems == [k \in {} |-> ""]

\* what a browser may hold under the key before the first visit
StoredThemes == {"light", "night", "sepia", ""}

setItem(storage, key, value) ==
  [k \in DOMAIN storage \cup {key} |-> IF k = key THEN value ELSE storage[k]]

\* the initial state that does not look at localStorage
InitialTheme_AlwaysLight(storage) == "light"

\* window.localStorage.getItem(themeKey) || "light"
InitialTheme(storage) ==
  IF themeKey \in DOMAIN storage /\ storage[themeKey] # ""
  THEN storage[themeKey]
  ELSE "light"

\* the effect that sets the class and leaves localStorage alone
EffectStorage_NotWritten(storage, t) == storage

\* window.localStorage.setItem(themeKey, theme)
EffectStorage(storage, t) == setItem(storage, themeKey, t)

\* e.target.checked ? "night" : "light"
NextTheme(checked) == IF checked THEN "night" ELSE "light"

notLayoutVars == <<buildVars, indexVars, feedVars, schemaVars, swVars,
                   translationVars,
                   manifestVars>>

\* the Toggle has no effect pending
NoToggleEffect == [pending |-> FALSE, checked |-> FALSE]

\* useState(!!(checked || defaultChecked)): Layout passes no defaultChecked
InitialIsChecked(checked) == checked

\* the effect of the Toggle: setIsChecked(checked), with the checked prop of
\* the render that scheduled it
ToggleEffect_Nothing(checked, current) == current

ToggleEffect(checked, current) == checked

\* the checked prop Layout hands to the Toggle
CheckedProp(t) == t = "night"

InitLayout ==
  /\ BuildIdle
  /\ ManifestIdle
  /\ IndexIdle
  /\ FeedIdle
  /\ SchemaIdle
  /\ SwIdle
  /\ TranslationIdle
  /\ layoutPc = "unmounted"
  /\ location = NoLocation
  /\ theme = NoTheme
  /\ localStorage \in {NoItems} \cup {setItem(NoItems, themeKey, v) : v \in StoredThemes}
  /\ bodyClass = ""
  /\ isChecked = FALSE
  /\ toggleEffect = NoToggleEffect

\* the pending effects run, the Toggle's before Layout's: what they leave in
\* isChecked (after the value a handler has queued), the body and the storage
FlushedIsChecked(queued) ==
  IF toggleEffect.pending THEN ToggleEffect(toggleEffect.checked, queued)
  ELSE queued

FlushEffects ==
  IF layoutPc = "effect"
  THEN /\ bodyClass' = theme
       /\ localStorage' = EffectStorage(localStorage, theme)
  ELSE UNCHANGED <<localStorage, bodyClass>>

\* the render after the queued state updates: an effect is scheduled where a
\* dependency changed ([theme] in Layout, [checked] in the Toggle)
Render(nextTheme, nextIsChecked) ==
  /\ theme' = nextTheme
  /\ isChecked' = nextIsChecked
  /\ layoutPc' = IF nextTheme # theme THEN "effect" ELSE "idle"
  /\ toggleEffect' = IF CheckedProp(nextTheme) # CheckedProp(theme)
                     THEN [pending |-> TRUE, checked |-> CheckedProp(nextTheme)]
                     ELSE NoToggleEffect

\* the first render of an instance: useState takes its initial value in
\* Layout and in the Toggle, both effects are pending
Mount ==
  /\ layoutPc = "unmounted"
  /\ location' \in SitePaths
  /\ theme' = InitialTheme(localStorage)
  /\ isChecked' = InitialIsChecked(CheckedProp(theme'))
  /\ toggleEffect' = [pending |-> TRUE, checked |-> CheckedProp(theme')]
  /\ layoutPc' = "effect"
  /\ UNCHANGED <<localStorage, bodyClass>>

\* the effects of the last render run
Effect ==
  /\ layoutPc = "effect"
  /\ FlushEffects
  /\ isChecked' = FlushedIsChecked(isChecked)
  /\ toggleEffect' = NoToggleEffect
  /\ layoutPc' = "idle"
  /\ UNCHANGED <<location, theme>>

\* the onChange Layout hands down, called with a checkbox of either value:
\* pending effects run before the state changes; setTheme with the current
\* value renders nothing
OnChange ==
  /\ layoutPc \in {"effect", "idle"}
  /\ \E checked \in BOOLEAN :
       Render(NextTheme(checked), FlushedIsChecked(isChecked))
  /\ FlushEffects
  /\ UNCHANGED location

\* a click on the toggle, or a key pressed while the toggle has the focus:
\* handleClick clicks the checkbox, the browser flips it, handleClick (now
\* with the checkbox as target) sets isChecked and onChange sets the theme
HandleClick ==
  /\ layoutPc \in {"effect", "idle"}
  /\ LET checkbox == [checked |-> ~isChecked]
     IN  Render(NextTheme(checkbox.checked), FlushedIsChecked(checkbox.checked))
  /\ FlushEffects
  /\ UNCHANGED location

\* a key pressed while the checkbox itself has the focus: handleClick sets
\* isChecked to what the checkbox shows, no click and no onChange follow
KeyDownOnCheckbox ==
  /\ layoutPc \in {"effect", "idle"}
  /\ LET checkbox == [checked |-> isChecked]
     IN  isChecked' = checkbox.checked
  /\ UNCHANGED <<layoutPc, location, theme, localStorage, bodyClass,
                 toggleEffect>>

\* the settled instance goes: the page is left for another page of the site
\* (the document stays) or reloaded (a new document)
Unmount ==
  /\ layoutPc = "idle"
  /\ layoutPc' = "unmounted"
  /\ location' = NoLocation
  /\ bodyClass' \in {bodyClass, ""}
  /\ isChecked' = FALSE
  /\ toggleEffect' = NoToggleEffect
  /\ UNCHANGED <<theme, localStorage>>

\* the tab is closed before the pending effect has run
Close ==
  /\ layoutPc = "effect"
  /\ layoutPc' = "unmounted"
  /\ location' = NoLocation
  /\ theme' = NoTheme
  /\ bodyClass' = ""
  /\ isChecked' = FALSE
  /\ toggleEffect' = NoToggleEffect
  /\ UNCHANGED localStorage

NextLayout ==
  \/ Mount /\ UNCHANGED notLayoutVars
  \/ Effect /\ UNCHANGED notLayoutVars
  \/ OnChange /\ UNCHANGED notLayoutVars
  \/ HandleClick /\ UNCHANGED notLayoutVars
  \/ KeyDownOnCheckbox /\ UNCHANGED notLayoutVars
  \/ Unmount /\ UNCHANGED notLayoutVars
  \/ Close /\ UNCHANGED notLayoutVars

SpecLayout == InitLayout /\ [][NextLayout]_vars

\* C17: once the effect of the last render has run, whatever toggle changes
\* came before, the class name of document.body and the localStorage item
\* "theme" both equal the theme state.
C17_ThemePersisted ==
  layoutPc = "idle" =>
    /\ bodyClass = theme
    /\ "theme" \in DOMAIN localStorage
    /\ localStorage["theme"] = theme

\* toggled to night in a browser that had "light" stored, effect run
C17_Witness ==
  /\ layoutPc = "idle"
  /\ theme = "night"
  /\ bodyClass = "night"
  /\ localStorage = setItem(NoItems, "theme", "night")

\* C18: a Layout mounted after an instance that settled on theme t starts
\* with theme t; a Layout mounted in a browser that stores no theme starts
\* with "light".
C18_ThemeReloadRoundTrip ==
  [][ (layoutPc = "unmounted" /\ layoutPc' # "unmounted") =>
        /\ theme # NoTheme => theme' = theme
        /\ "theme" \notin DOMAIN localStorage => theme' = "light" ]_vars

\* an instance mounted with theme night in the document that the instance
\* before it left with class night
C18_Witness ==
  /\ layoutPc = "effect"
  /\ theme = "night"
  /\ bodyClass = "night"

----------------------------------------------------------------------------
(* The index template (blog-index.js): the page of one language, rendered  *)
(* from its page query over the markdown nodes once sourcing is over.      *)

\* the filter that always asks for the default language
FilterLangKey_AlwaysDefault(store, langKey) ==
  SelectSeq(store, LAMBDA n : n.langKey = "en")

\* filter: {fields: {langKey: {eq: $langKey}}}
FilterLangKey(store, langKey) ==
  SelectSeq(store, LAMBDA n : n.langKey = langKey)

\* date(formatString: "MMMM DD, YYYY"): the day is kept, the time of day is
\* not; two instants make a day
FormatDate(date) == <<"day", (date + 1) \div 2>>

\* the fields the query selects of a node; id stands for the node itself
Edge(n) ==
  [ id |-> n.id,
    fields |-> [slug |-> n.slug, langKey |-> n.langKey],
    frontmatter |-> [date |-> FormatDate(n.date)] ]

\* allMarkdownRemark(filter: ..., sort: {frontmatter: {date: DESC}}).edges
pageQuery(store, langKey) ==
  LET sorted == SortByDateDesc(FilterLangKey(store, langKey))
  IN  [k \in DOMAIN sorted |-> Edge(sorted[k])]

\* posts.map: one article per edge, keyed by and linking to the slug
BlogIndex(edges) ==
  [k \in DOMAIN edges |->
     [ key  |-> edges[k].fields.slug,
       to   |-> edges[k].fields.slug,
       date |-> edges[k].frontmatter.date,
       node |-> edges[k] ]]

notIndexVars == <<pc, result, posts, allSlugs, translationsByDirectory,
                  defaultLangPosts, otherLangPosts, pages,
                  feedVars, schemaVars, swVars, layoutVars, translationVars,
                  manifestVars>>

InitIndex ==
  /\ BuildIdle
  /\ ManifestIdle
  /\ IndexIdle
  /\ FeedIdle
  /\ SchemaIdle
  /\ SwIdle
  /\ LayoutIdle
  /\ TranslationIdle

\* a file is sourced: no page is rendered before sourcing is over
SourceNode ==
  /\ indexPage = None
  /\ onCreateNode
  /\ UNCHANGED indexPage

\* the index page of one language is rendered
RenderBlogIndex ==
  /\ indexPage = None
  /\ \E langKey \in Range(SupportedLanguageKeys) :
       indexPage' = [ pageContext |-> [langKey |-> langKey],
                      articles    |-> BlogIndex(pageQuery(nodes, langKey)) ]
  /\ UNCHANGED nodes

NextIndex ==
  \/ SourceNode /\ UNCHANGED <<feedVars, schemaVars, swVars, layoutVars,
                              translationVars, manifestVars>>
  \/ RenderBlogIndex /\ UNCHANGED notIndexVars

SpecIndex == InitIndex /\ [][NextIndex]_vars

\* the articles of the page that show node n
ArticlesOf(n) ==
  {k \in DOMAIN indexPage.articles : indexPage.articles[k].node.id = n.id}

\* the node an article shows
NodeOfArticle(k) ==
  CHOOSE n \in Range(nodes) : n.id = indexPage.articles[k].node.id

\* C19: the index page of language L shows every post whose langKey is L
\* once, no post of another language and nothing else, newest first: no
\* article is followed by the article of a post of a later date.
C19_IndexListsItsLocale ==
  indexPage # None =>
    LET L == indexPage.pageContext.langKey
    IN  /\ \A n \in Range(nodes) :
             Cardinality(ArticlesOf(n)) = IF n.langKey = L THEN 1 ELSE 0
        /\ \A k \in DOMAIN indexPage.articles :
             /\ \E n \in Range(nodes) : k \in ArticlesOf(n)
             /\ indexPage.articles[k].to = NodeOfArticle(k).slug
        /\ \A k, l \in DOMAIN indexPage.articles :
             k < l => NodeOfArticle(k).date >= NodeOfArticle(l).date

\* the page of zh-hans with two translated posts, sourced oldest first,
\* beside a default-language post
C19_Witness ==
  /\ indexPage # None
  /\ indexPage.pageContext.langKey = "zh-hans"
  /\ Len(indexPage.articles) = 2
  /\ Len(nodes) = 3
  /\ \E n \in Range(nodes) : n.langKey = "en"
  /\ \E m, n \in Range(nodes) :
       /\ m.langKey = "zh-hans" /\ n.langKey = "zh-hans"
       /\ m.id < n.id /\ m.date < n.date
       /\ indexPage.articles[1].node.id = n.id

----------------------------------------------------------------------------
(* The Translation component (translation.js).  A pathname is the sequence *)
(* of its characters: "a" stands for a word character, "." for a character *)
(* that is neither a word character, a hyphen nor a slash.                 *)

MaxPathLen == 7

Chars == {"/", "a", "-", "."}

\* the strings of at most n characters
Strings(n) == UNION {[1..k -> Chars] : k \in 0..n}

\* location.pathname begins with a slash
LocationPathnames == {<<"/">> \o t : t \in Strings(MaxPathLen - 1)}

\* the class that leaves the hyphen out
IsWordOrHyphen_WordOnly(c) == c \notin {"/", ".", "-"}

\* (\w|-)
IsWordOrHyphen(c) == c \notin {"/", "."}

\* the last place of the run of word characters and hyphens that begins at i
RECURSIVE WordRunEnd(_, _)
WordRunEnd(t, i) ==
  IF i < Len(t) /\ IsWordOrHyphen(t[i + 1]) THEN WordRunEnd(t, i + 1) ELSE i

\* the last place of the run of hyphens that begins at i
RECURSIVE HyphenRunEnd(_, _)
HyphenRunEnd(t, i) ==
  IF i < Len(t) /\ t[i + 1] = "-" THEN HyphenRunEnd(t, i + 1) ELSE i

\* the matches of /\/(\w|-)+|-+/g in t from place i on: at each place the
\* first alternative is tried before the second, each takes all it can, and
\* the search goes on behind the match
RECURSIVE MatchFrom(_, _)
MatchFrom(t, i) ==
  IF i > Len(t) THEN <<>>
  ELSE IF t[i] = "/" /\ i < Len(t) /\ IsWordOrHyphen(t[i + 1])
  THEN LET j == WordRunEnd(t, i + 1)
       IN  <<SubSeq(t, i, j)>> \o MatchFrom(t, j + 1)
  ELSE IF t[i] = "-"
  THEN LET j == HyphenRunEnd(t, i)
       IN  <<SubSeq(t, i, j)>> \o MatchFrom(t, j + 1)
  ELSE MatchFrom(t, i + 1)

\* pathname.match(matchPath): the matches, or null when there is none
MatchPath(pathname) ==
  LET found == MatchFrom(pathname, 1)
  IN  IF found = <<>> THEN Null ELSE Arr(found)

\* an element of a destructured array: undefined beyond its end
Element(found, k) == IF k <= Len(found) THEN Str(found[k]) ELSE Undefined

\* pathname.replaceAll('/', '')
RECURSIVE WithoutSlashes(_)
WithoutSlashes(t) ==
  IF t = <<>> THEN <<>>
  ELSE IF Head(t) = "/" THEN WithoutSlashes(Tail(t))
       ELSE <<Head(t)>> \o WithoutSlashes(Tail(t))

\* what the component returns: the two links back, nothing, or one link per
\* translation; destructuring null throws
Translation(p) ==
  IF p.translations = Undefined
  THEN LET matched == MatchPath(p.location.pathname)
       IN  IF matched = Null
           THEN [returns |-> "TypeError"]
           ELSE [ returns |-> "original",
                  readTheOriginal         |-> Element(matched.value, 2),
                  viewAllTranslatedPosts  |-> Element(matched.value, 1) ]
  ELSE IF Len(p.translations.value) = 0
  THEN [returns |-> "null"]
  ELSE [ returns |-> "translations",
         links |-> [k \in DOMAIN p.translations.value |->
                      <<"/", p.translations.value[k], "/">>
                        \o WithoutSlashes(p.location.pathname)] ]

notTranslationVars == <<buildVars, indexVars, feedVars, schemaVars, swVars,
                        layoutVars,
                        manifestVars>>

InitTranslation ==
  /\ BuildIdle
  /\ ManifestIdle
  /\ IndexIdle
  /\ FeedIdle
  /\ SchemaIdle
  /\ SwIdle
  /\ LayoutIdle
  /\ TranslationIdle

\* a post page hands the component its props
PassProps ==
  /\ props = None
  /\ \E pathname \in LocationPathnames,
        translations \in {Undefined, Arr(<<>>), Arr(<<"zh-hans">>)} :
       props' = [translations |-> translations,
                 location |-> [pathname |-> pathname]]
  /\ UNCHANGED <<rendered, referrer>>

RenderTranslation ==
  /\ props # None
  /\ rendered = None
  /\ rendered' = Translation(props)
  /\ UNCHANGED <<props, referrer>>

\* the reader follows one of the links to a translation: the page of a
\* translated post has no translations in its context (OtherLangPage)
FollowTranslationLink ==
  /\ rendered # None
  /\ rendered.returns = "translations"
  /\ \E k \in DOMAIN rendered.links :
       props' = [translations |-> Undefined,
                 location |-> [pathname |-> rendered.links[k]]]
  /\ referrer' = [pathname |-> props.location.pathname]
  /\ rendered' = None

NextTranslation ==
  \/ PassProps /\ UNCHANGED notTranslationVars
  \/ RenderTranslation /\ UNCHANGED notTranslationVars
  \/ FollowTranslationLink /\ UNCHANGED notTranslationVars

SpecTranslation == InitTranslation /\ [][NextTranslation]_vars

\* the places of the slashes of a string
Slashes(t) == {i \in DOMAIN t : t[i] = "/"}

\* pathname is /<lang>/<slug>/ with lang and slug made of word characters
\* and hyphens, lang being t[2..i-1] and slug t[i+1..Len(t)-1]
IsLangSlugPath(t, i) ==
  /\ Slashes(t) = {1, i, Len(t)}
  /\ 2 < i /\ i + 1 < Len(t)
  /\ \A k \in DOMAIN t : t[k] \in {"/", "a", "-"}

\* C20: rendered without translations on the pathname /<lang>/<slug>/, lang
\* and slug made of word characters and hyphens, the component links "Read
\* the original" to /<slug> and "View all translated posts" to /<lang>;
\* rendered with an empty list of translations it returns nothing.
C20_LinksOfTranslatedPost ==
  rendered # None =>
    LET t == props.location.pathname
    IN  /\ props.translations = Undefined =>
             \A i \in DOMAIN t :
               IsLangSlugPath(t, i) =>
                 /\ rendered.returns = "original"
                 /\ rendered.readTheOriginal = Str(SubSeq(t, i, Len(t) - 1))
                 /\ rendered.viewAllTranslatedPosts = Str(SubSeq(t, 1, i - 1))
        /\ props.translations = Arr(<<>>) => rendered.returns = "null"

\* the page /a-/-a/ of a translated post: the links go to /-a and to /a-
C20_Witness ==
  /\ rendered # None
  /\ props.translations = Undefined
  /\ props.location.pathname = <<"/", "a", "-", "/", "-", "a", "/">>
  /\ rendered.returns = "original"
  /\ rendered.readTheOriginal = Str(<<"/", "-", "a">>)
  /\ rendered.viewAllTranslatedPosts = Str(<<"/", "a", "-">>)

\* pathname is /<slug>/, the slug being one segment
IsSlugPath(t) == Len(t) > 2 /\ Slashes(t) = {1, Len(t)}

\* C21: translation link round trip: from the page /<slug>/ of a
\* default-language post the link of language l goes to /<l>/<slug>, and on
\* that page "Read the original" goes to /<slug>, the path of the starting
\* post up to the trailing slash.
C21_TranslationLinkRoundTrip ==
  (rendered # None /\ referrer # None) =>
    LET start == referrer.pathname
        slug  == SubSeq(start, 2, Len(start) - 1)
        here  == props.location.pathname
    IN  IsSlugPath(start) =>
          /\ here = <<"/", here[2], "/">> \o slug
          /\ rendered.returns = "original"
          /\ rendered.readTheOriginal = Str(<<"/">> \o slug)

\* the round trip for the slugs made of word characters and hyphens
RoundTripOfWordSlugs ==
  (rendered # None /\ referrer # None) =>
    LET start == referrer.pathname
        slug  == SubSeq(start, 2, Len(start) - 1)
    IN  (IsSlugPath(start) /\ \A k \in DOMAIN slug : slug[k] \in {"a", "-"}) =>
          /\ rendered.returns = "original"
          /\ rendered.readTheOriginal = Str(<<"/">> \o slug)

----------------------------------------------------------------------------
\* C22: every request whose origin is https://fonts.googleapis.com or
\* https://fonts.gstatic.com is served by the stale-while-revalidate
\* strategy with the "google-fonts" cache, whatever its destination or mode.
C22_GoogleFontsRuleServesFontOrigins ==
  (swHandled # None
     /\ swRequest.origin \in {"https://fonts.googleapis.com",
                              "https://fonts.gstatic.com"}) =>
    /\ swHandled.strategy = "StaleWhileRevalidate"
    /\ swHandled.cacheName = "google-fonts"

----------------------------------------------------------------------------
\* the loop of createPages that emits route r: 1 for the index routes, 2 for
\* the default-language detail routes, 3 for the other detail routes
LoopOf(r) ==
  IF IsIndexRoute(r) THEN 1 ELSE IF IsDefaultLangRoute(r) THEN 2 ELSE 3

\* C23: route emission order: at every moment the routes emitted so far are
\* index routes first, in the key order of supportedLanguages, then
\* default-language detail routes, then the other detail routes; the
\* default-language detail routes are in descending date order of their
\* posts; and there is no detail route unless the content query has returned
\* without errors.
C23_RouteEmissionOrder ==
  /\ \A i, j \in DOMAIN pages : i < j => LoopOf(pages[i]) <= LoopOf(pages[j])
  /\ \A i \in DOMAIN IndexRoutes :
       IndexRoutes[i].context.langKey = SupportedLanguageKeys[i]
  /\ (\E i \in DOMAIN pages : ~IsIndexRoute(pages[i])) =>
       /\ pc = "done" /\ ~result.errors
       /\ Len(IndexRoutes) = Len(SupportedLanguageKeys)
  /\ Done =>
       LET R == DefaultLangRoutes
       IN  /\ Len(R) = Len(defaultLangPosts)
           /\ \A k \in DOMAIN R : R[k].context.slug = PostOfRoute(k).slug
           /\ \A k, l \in DOMAIN R :
                k < l => PostOfRoute(k).date >= PostOfRoute(l).date

\* two default-language posts sourced oldest first and a translated post:
\* five routes, the newer post's route before the older post's
C23_Witness ==
  /\ Done
  /\ Len(pages) = 5
  /\ Len(DefaultLangRoutes) = 2 /\ Len(OtherLangRoutes) = 1
  /\ PostOfRoute(1).id > PostOfRoute(2).id
  /\ PostOfRoute(1).date > PostOfRoute(2).date
  /\ pages[3].path = PostOfRoute(1).slug
  /\ pages[5].path = otherLangPosts[1].slug

----------------------------------------------------------------------------
(* The precache manifest transform (workbox-config.cjs).  A url is the     *)
(* sequence of its parts: the slashes, the names between them and the      *)
(* extension; it is relative to globDirectory, as the globs give it.       *)

MaxManifest == 3

\* index.html, a/index.html, a.html, aindex.html, index.js, a/index.js,
\* a/app.js
GlobbedUrls ==
  { <<"index", ".html">>, <<"a", "/", "index", ".html">>, <<"a", ".html">>,
    <<"aindex", ".html">>, <<"index", ".js">>, <<"a", "/", "index", ".js">>,
    <<"a", "/", "app", ".js">> }

EndsWith(t, suffix) ==
  Len(t) >= Len(suffix)
    /\ SubSeq(t, Len(t) - Len(suffix) + 1, Len(t)) = suffix

\* t.replace(/suffix$/, by)
ReplaceAtEnd(t, suffix, by) ==
  IF EndsWith(t, suffix) THEN SubSeq(t, 1, Len(t) - Len(suffix)) \o by ELSE t

\* the body of the map callback, on the url of the entry
TransformUrl(url) ==
  IF EndsWith(url, <<".html">>)
  THEN LET stripped == ReplaceAtEnd(url, <<".html">>, <<>>)
       IN  IF EndsWith(stripped, <<"/", "index">>)
           THEN ReplaceAtEnd(stripped, <<"/", "index">>, <<"/">>)
           ELSE stripped
  ELSE url

\* manifestEntries.map(...): every entry is returned, its url rewritten
ManifestTransform(entries) ==
  [k \in DOMAIN entries |-> [entries[k] EXCEPT !.url = TransformUrl(@)]]

notManifestVars == <<buildVars, indexVars, feedVars, schemaVars, swVars,
                     layoutVars, translationVars>>

InitManifest ==
  /\ BuildIdle
  /\ ManifestIdle
  /\ IndexIdle
  /\ FeedIdle
  /\ SchemaIdle
  /\ SwIdle
  /\ LayoutIdle
  /\ TranslationIdle

\* the globs find a file of dist/
GlobFile ==
  /\ manifest = None
  /\ Len(manifestEntries) < MaxManifest
  /\ \E url \in GlobbedUrls :
       /\ \A k \in DOMAIN manifestEntries : manifestEntries[k].url # url
       /\ manifestEntries' =
            Append(manifestEntries,
                   [url |-> url, revision |-> <<"hash of">> \o url])
  /\ UNCHANGED manifest

\* the transform runs over the entries found
RunManifestTransform ==
  /\ manifest = None
  /\ manifest' = [manifest |-> ManifestTransform(manifestEntries)]
  /\ UNCHANGED manifestEntries

NextManifest ==
  \/ GlobFile /\ UNCHANGED notManifestVars
  \/ RunManifestTransform /\ UNCHANGED notManifestVars

SpecManifest == InitManifest /\ [][NextManifest]_vars

\* the url t is that of the index page of a directory, the root included
IsDirectoryIndex(t) ==
  t = <<"index", ".html">> \/ EndsWith(t, <<"/", "index", ".html">>)

\* what the transform does to every entry, but for the claim about the
\* index pages
TransformsAsDescribed ==
  manifest # None =>
    LET out == manifest.manifest
    IN  /\ Len(out) = Len(manifestEntries)
        /\ \A k \in DOMAIN out :
             LET before == manifestEntries[k].url
                 noHtml == SubSeq(before, 1, Len(before) - 1)
             IN  /\ out[k].revision = manifestEntries[k].revision
                 /\ out[k].url =
                      IF ~EndsWith(before, <<".html">>) THEN before
                      ELSE IF EndsWith(noHtml, <<"/", "index">>)
                      THEN SubSeq(noHtml, 1, Len(noHtml) - 1)
                      ELSE noHtml

\* C24: the transform keeps the number and order of the entries, leaves
\* every url that does not end in ".html" as it is, takes ".html" off every
\* url that ends in it and then turns an ending "/index" into "/"; so every
\* directory index page, the site root included, gets a url ending in "/".
C24_ManifestTransform ==
  manifest # None =>
    /\ TransformsAsDescribed
    /\ \A k \in DOMAIN manifest.manifest :
         IsDirectoryIndex(manifestEntries[k].url) =>
           EndsWith(manifest.manifest[k].url, <<"/">>)

\* C25: whenever the Layout is mounted and no effect is pending, the Toggle's
\* isChecked is a boolean and equals its checked prop, theme = "night",
\* whatever clicks, key presses, onChange calls and effect runs came before
C25_ToggleSynchronised ==
  layoutPc = "idle" =>
    /\ isChecked \in BOOLEAN
    /\ isChecked = CheckedProp(theme)

\* a settled night Layout: the Toggle shows checked
C25_Witness ==
  /\ layoutPc = "idle"
  /\ isChecked = TRUE
  /\ CheckedProp(theme)
  /\ toggleEffect = NoToggleEffect
  /\ bodyClass = "night"

\* C26: the handling of an event calls skipWaiting exactly when the event is
\* a message whose data is an object of type "SKIP_WAITING": never for a
\* fetch, never for a message without data or with another type
C26_SkipWaitingOnMessage ==
  swSkipWaiting <=>
    /\ swMessage # NoMessage
    /\ swMessage.data \in {Obj([type |-> Str("SKIP_WAITING")]),
                           Obj([type |-> Str("SKIP_WAITING"),
                                payload |-> Str("now")])}

\* a SKIP_WAITING message has been handled after a fetch
C26_Witness ==
  /\ swRequest # None
  /\ swMessage = [data |-> Obj([type |-> Str("SKIP_WAITING")])]
  /\ swSkipWaiting = TRUE

\* C27: for every default-language post P, previous and next of P's route
\* are null or a default-language post of the content store other than P,
\* and when both are set they are two different posts: a translated post is
\* never a neighbour.
C27_NeighboursAreOtherDefaultLangPosts ==
  Done =>
    LET R == DefaultLangRoutes
    IN  \A k \in DOMAIN R :
          LET P == PostOfRoute(k)
              previous == R[k].context.previous
              next == R[k].context.next
              Allowed == {Null} \cup {Q \in DefaultLangNodes : Q.id # P.id}
          IN  /\ previous \in Allowed
              /\ next \in Allowed
              /\ (previous # Null /\ next # Null) => previous.id # next.id

\* a translated post stands between two default-language posts in the
\* query's result: the two are each other's neighbours
C27_Witness ==
  /\ Done
  /\ Len(posts) = 3
  /\ posts[1].langKey = "en"
  /\ posts[2].langKey # "en"
  /\ posts[3].langKey = "en"
  /\ Len(DefaultLangRoutes) = 2
  /\ DefaultLangRoutes[1].context.previous = posts[3]
  /\ DefaultLangRoutes[2].context.next = posts[1]

\* the posts a reader passes who starts at post P and follows the given link
\* of each route's context, for at most fuel pages
RECURSIVE Walk(_, _, _)
Walk(P, link, fuel) ==
  IF P = Null \/ fuel = 0 THEN <<>>
  ELSE LET k == RouteIndexOf(P)
       IN  IF k = 0 THEN <<P>>
           ELSE LET context == DefaultLangRoutes[k].context
                IN  <<P>> \o Walk(IF link = "previous" THEN context.previous
                                  ELSE context.next, link, fuel - 1)

\* C28: navigation chain: following previous from the newest
\* default-language post passes every default-language post exactly once and
\* ends at the oldest, whose previous is null; following next from the
\* oldest does the same in reverse.
C28_NavigationChain ==
  Done =>
    LET R == DefaultLangRoutes
        n == Len(DefaultLangRoutes)
    IN  n >= 1 =>
          LET down == Walk(PostOfRoute(1), "previous", n + 1)
              up == Walk(PostOfRoute(n), "next", n + 1)
          IN  /\ \A Q \in DefaultLangNodes :
                   PostOfRoute(n).date <= Q.date /\ Q.date <= PostOfRoute(1).date
              /\ Len(down) = n
              /\ NoDuplicates(down)
              /\ Range(down) = DefaultLangNodes
              /\ down[n] = PostOfRoute(n)
              /\ R[n].context.previous = Null
              /\ Len(up) = n
              /\ up = [k \in 1..n |-> down[n + 1 - k]]
              /\ R[1].context.next = Null

\* three default-language posts, the two older ones of one date: the walk
\* down from the newest has three posts
C28_Witness ==
  /\ Done
  /\ Len(DefaultLangRoutes) = 3
  /\ defaultLangPosts[1].date > defaultLangPosts[2].date
  /\ defaultLangPosts[2].date = defaultLangPosts[3].date
  /\ Len(Walk(PostOfRoute(1), "previous", 4)) = 3
  /\ Walk(PostOfRoute(3), "next", 4)[3] = defaultLangPosts[1]

\* C29: in every state of a mounted Layout, whatever localStorage held at
\* first and whatever toggle changes came, the theme state is "light" or
\* "night", and so is the class of the body once the effect has run.
C29_ThemeIsLightOrNight ==
  layoutPc \in {"effect", "idle"} =>
    /\ theme \in {"light", "night"}
    /\ layoutPc = "idle" => bodyClass \in {"light", "night"}

\* the two paths are the same but for a slash at the end of either
SameUpToTrailingSlash(p, q) ==
  p = q \/ p \o <<"/">> = q \/ p = q \o <<"/">>

\* what the Translation component renders on the page of route r
TranslationOfRoute(r) ==
  Translation([translations |-> Undefined, location |-> [pathname |-> r.path]])

\* C30: for every other-language post route of a finished build, the
\* "Read the original" target the Translation component derives from the
\* route's path is, up to a trailing slash, the path of a default-language
\* post route of the same build.
C30_OriginalIsAnEmittedRoute ==
  Done =>
    \A k \in DOMAIN OtherLangRoutes :
      LET t == TranslationOfRoute(OtherLangRoutes[k])
      IN  /\ t.returns = "original"
          /\ t.readTheOriginal # Undefined
          /\ \E d \in DOMAIN DefaultLangRoutes :
               SameUpToTrailingSlash(t.readTheOriginal.value,
                                     DefaultLangRoutes[d].path)

====
